---- MODULE Spec2Model ----
(***************************************************************************)
(* FridgeMate (src/mvp.py): the feedback memory file, the '---'/label      *)
(* parser of the model response, the Hugging Face image client with its    *)
(* 503 retry loop, and the Streamlit button handlers that tie them         *)
(* together.  Text is modelled as a sequence of one-character strings so   *)
(* that split / replace / strip / "in" act as Python's str methods do.     *)
(***************************************************************************)
EXTENDS Integers, Sequences, FiniteSets, TLC

\* ------------------------------------------------------------------ bounds
MaxFileLines == 3      \* appends to memory.txt that the model follows
MaxLimit == 2          \* largest limit passed to load_trimmed_memory directly
MaxFragments == 3      \* fragments concatenated into one raw model response

\* ------------------------------------------------------- program constants
DefaultLimit == 5
MaxAttempts == 3
DefaultWait == 20

\* ------------------------------------------------------ Python str helpers
Whitespace == {" ", "\n", "\t", "\r"}

\* p occurs in s at index i
MatchAt(s, i, p) ==
    /\ i >= 1
    /\ i + Len(p) - 1 <= Len(s)
    /\ \A k \in 1..Len(p) : s[i + k - 1] = p[k]

\* str.find (1-based, 0 when absent), searching from index from
RECURSIVE Find(_, _, _)
Find(s, p, from) ==
    IF from + Len(p) - 1 > Len(s) THEN 0
    ELSE IF MatchAt(s, from, p) THEN from
    ELSE Find(s, p, from + 1)

\* p in s
Contains(s, p) == Find(s, p, 1) /= 0

\* s.split(sep)
RECURSIVE Split(_, _)
Split(s, sep) ==
    LET i == Find(s, sep, 1)
    IN  IF i = 0 THEN <<s>>
        ELSE <<SubSeq(s, 1, i - 1)>> \o Split(SubSeq(s, i + Len(sep), Len(s)), sep)

\* s.replace(p, "")
RECURSIVE Replace(_, _)
Replace(s, p) ==
    LET i == Find(s, p, 1)
    IN  IF i = 0 THEN s
        ELSE SubSeq(s, 1, i - 1) \o Replace(SubSeq(s, i + Len(p), Len(s)), p)

\* s.lstrip(), s.rstrip(), s.strip()
RECURSIVE LStrip(_)
LStrip(s) ==
    IF s = <<>> THEN s
    ELSE IF Head(s) \in Whitespace THEN LStrip(Tail(s))
    ELSE s

RECURSIVE RStrip(_)
RStrip(s) ==
    IF s = <<>> THEN s
    ELSE IF s[Len(s)] \in Whitespace THEN RStrip(SubSeq(s, 1, Len(s) - 1))
    ELSE s

Strip(s) == RStrip(LStrip(s))

\* seq[start:] for a Python start index (0-based, negative counts from the end)
PySliceFrom(seq, start) ==
    LET n == Len(seq)
        from == IF start < 0 THEN (IF n + start < 0 THEN 0 ELSE n + start)
                ELSE (IF start > n THEN n ELSE start)
    IN  SubSeq(seq, from + 1, n)

\* f.readlines(): the lines of the file, each with its terminator
RECURSIVE ReadLines(_)
ReadLines(data) ==
    LET i == Find(data, <<"\n">>, 1)
    IN  IF data = <<>> THEN <<>>
        ELSE IF i = 0 THEN <<data>>
        ELSE <<SubSeq(data, 1, i)>> \o ReadLines(SubSeq(data, i + 1, Len(data)))

\* truthiness of a Python str / bytes / list value held as a sequence
Truthy(s) == s /= <<>>

\* ------------------------------------------------------------ memory store
Absent == [exists |-> FALSE, data |-> <<>>]

\* what the user may type into "Enter a new preference:"
FeedbackInputs == { <<>>, <<"a">>, <<" ", "b">>, <<" ">> }

\* save_feedback with the file opened in "w" mode instead of "a"
save_feedback_truncating(file, text, ok) ==
    IF ok
    THEN [file |-> [exists |-> TRUE, data |-> text \o <<"\n">>], raised |-> "none"]
    ELSE [file |-> file, raised |-> "OSError"]

\* save_feedback(text); ok = FALSE when open("memory.txt", "a") fails
save_feedback(file, text, ok) ==
    IF ok
    THEN [file |-> [exists |-> TRUE, data |-> file.data \o text \o <<"\n">>],
          raised |-> "none"]
    ELSE [file |-> file, raised |-> "OSError"]

\* load_trimmed_memory(limit)
load_trimmed_memory(file, limit) ==
    IF file.exists
    THEN LET raw == ReadLines(file.data)
             kept == SelectSeq(raw, LAMBDA line : Truthy(Strip(line)))
             lines == [i \in 1..Len(kept) |-> Strip(kept[i])]
         IN  PySliceFrom(lines, 0 - limit)
    ELSE <<>>

\* os.remove("memory.txt") without the os.path.exists test
ClearMemoryUnchecked(file) ==
    IF file.exists
    THEN [file |-> Absent, raised |-> "none"]
    ELSE [file |-> file, raised |-> "FileNotFoundError"]

\* if os.path.exists("memory.txt"): os.remove("memory.txt")
ClearMemory(file) ==
    IF file.exists
    THEN [file |-> Absent, raised |-> "none"]
    ELSE [file |-> file, raised |-> "none"]

VARIABLES
    memFile,          \* memory.txt: [exists, data]
    raised,           \* exception that escaped the last call / script run
    notice,           \* inline message shown by the last script run
    api_key,          \* sidebar "API Key"
    hf_token,         \* sidebar "Hugging Face Token"
    last_options,     \* st.session_state.last_options: [present, text]
    cards,            \* the option cards drawn from last_options
    completionCalls,  \* Completion API requests issued by the last generate click
    pc,               \* position of the script: idle, rerun pending, or inside the plog handler
    hfAttempt,        \* loop variable of generate_hf_image
    hfLog,            \* responses received by the running generate_hf_image call
    hfResult,         \* value returned by generate_hf_image
    img_done,         \* first image of the plog handler
    appended,         \* texts written since the store was last cleared
    window,           \* value returned by the last direct load_trimmed_memory
    readLimit,        \* limit of that call
    storeOp           \* last direct store call and the store's state before it

vars == <<memFile, raised, notice, api_key, hf_token, last_options, cards,
          completionCalls, pc, hfAttempt, hfLog, hfResult, img_done,
          appended, window, readLimit, storeOp>>

uiVars == <<notice, api_key, hf_token, last_options, cards, completionCalls>>
hfVars == <<pc, hfAttempt, hfLog, hfResult, img_done>>
harnessVars == <<appended, window, readLimit, storeOp>>

Pending == [kind |-> "pending", content |-> <<>>]
None == [kind |-> "None", content |-> <<>>]

Init ==
    /\ memFile = Absent
    /\ raised = "none"
    /\ notice = "none"
    /\ api_key = <<>>
    /\ hf_token = <<>>
    /\ last_options = [present |-> FALSE, text |-> <<>>]
    /\ cards = <<>>
    /\ completionCalls = 0
    /\ pc = "idle"
    /\ hfAttempt = 0
    /\ hfLog = <<>>
    /\ hfResult = Pending
    /\ img_done = Pending
    /\ appended = <<>>
    /\ window = <<>>
    /\ readLimit = DefaultLimit
    /\ storeOp = [name |-> "none", pre |-> "absent"]

\* -------------------------------------------- direct calls of the store API
StoreState(file) ==
    IF ~file.exists THEN "absent"
    ELSE IF load_trimmed_memory(file, DefaultLimit) = <<>> THEN "blank"
    ELSE "entries"

CallSaveFeedback(text, ok) ==
    /\ Len(ReadLines(memFile.data)) < MaxFileLines
    /\ LET r == save_feedback(memFile, text, ok)
       IN  /\ memFile' = r.file
           /\ raised' = r.raised
           /\ appended' = IF ok THEN Append(appended, text) ELSE appended
    /\ storeOp' = [name |-> "append", pre |-> StoreState(memFile)]
    /\ UNCHANGED <<window, readLimit>>
    /\ UNCHANGED <<uiVars, hfVars>>

CallLoadTrimmedMemory(limit) ==
    /\ window' = load_trimmed_memory(memFile, limit)
    /\ readLimit' = limit
    /\ raised' = "none"
    /\ storeOp' = [name |-> "read", pre |-> StoreState(memFile)]
    /\ UNCHANGED <<memFile, appended>>
    /\ UNCHANGED <<uiVars, hfVars>>

CallClearMemory ==
    /\ LET r == ClearMemory(memFile)
       IN  /\ memFile' = r.file
           /\ raised' = r.raised
    /\ appended' = <<>>
    /\ storeOp' = [name |-> "clear", pre |-> StoreState(memFile)]
    /\ UNCHANGED <<window, readLimit>>
    /\ UNCHANGED <<uiVars, hfVars>>

NextStore ==
    \/ \E text \in FeedbackInputs, ok \in BOOLEAN : CallSaveFeedback(text, ok)
    \/ \E limit \in 0..MaxLimit : CallLoadTrimmedMemory(limit)
    \/ CallClearMemory

SpecStore == Init /\ [][NextStore]_vars

\* --------------------------------------------------------- response parser
DELIM == <<"-","-","-">>
L_NAME == <<"N","A","M","E",":">>
L_TIME == <<"T","I","M","E",":">>
L_LEVEL == <<"L","E","V","E","L",":">>
L_SHOPPING == <<"S","H","O","P","P","I","N","G",":">>
L_COST == <<"C","O","S","T",":">>
L_IMG_KEY == <<"I","M","G","_","K","E","Y",":">>
L_ING_KEY == <<"I","N","G","_","K","E","Y",":">>
L_CAPTION == <<"C","A","P","T","I","O","N",":">>
L_RECIPE == <<"R","E","C","I","P","E",":">>
NA == <<"N","/","A">>

\* the labels get_val is called with
Labels == {L_NAME, L_TIME, L_LEVEL, L_SHOPPING, L_COST, L_IMG_KEY, L_ING_KEY, L_CAPTION}

\* get_val without the final .strip()
RECURSIVE get_val_from_unstripped(_, _, _)
get_val_from_unstripped(lines, k, label) ==
    IF k > Len(lines) THEN NA
    ELSE IF Contains(lines[k], label) THEN Replace(lines[k], label)
    ELSE get_val_from_unstripped(lines, k + 1, label)

\* get_val(label) over lines = opt.strip().split('\n')
RECURSIVE get_val_from(_, _, _)
get_val_from(lines, k, label) ==
    IF k > Len(lines) THEN NA
    ELSE IF Contains(lines[k], label) THEN Strip(Replace(lines[k], label))
    ELSE get_val_from(lines, k + 1, label)

get_val(opt, label) == get_val_from(Split(Strip(opt), <<"\n">>), 1, label)

\* the recipe taken to the end of the block, without the split on "CAPTION:"
recipe_content_to_end(opt) == Strip(Split(opt, L_RECIPE)[2])

\* opt.split("RECIPE:")[1].split("CAPTION:")[0].strip()
recipe_content(opt) == Strip(Split(Split(opt, L_RECIPE)[2], L_CAPTION)[1])

\* one rendered card: the body of "if 'NAME:' in opt" for the block numbered idx
Card(opt, idx) ==
    [ number |-> idx + 1,
      opt |-> opt,
      field |-> [label \in Labels |-> get_val(opt, label)],
      hasRecipe |-> Contains(opt, L_RECIPE),
      recipe |-> IF Contains(opt, L_RECIPE) THEN recipe_content(opt) ELSE <<>> ]

\* the render loop with idx += 1 moved out of the "if", counting every segment
RECURSIVE RenderFromCountingAll(_, _, _)
RenderFromCountingAll(raw_options, k, idx) ==
    IF k > Len(raw_options) THEN <<>>
    ELSE IF Contains(raw_options[k], L_NAME)
         THEN <<Card(raw_options[k], idx)>> \o RenderFromCountingAll(raw_options, k + 1, idx + 1)
         ELSE RenderFromCountingAll(raw_options, k + 1, idx + 1)

\* for opt in raw_options: if "NAME:" in opt: ...; idx += 1
RECURSIVE RenderFrom(_, _, _)
RenderFrom(raw_options, k, idx) ==
    IF k > Len(raw_options) THEN <<>>
    ELSE IF Contains(raw_options[k], L_NAME)
         THEN <<Card(raw_options[k], idx)>> \o RenderFrom(raw_options, k + 1, idx + 1)
         ELSE RenderFrom(raw_options, k + 1, idx)

\* the cards drawn for st.session_state.last_options
RenderCards(raw) == RenderFrom(Split(raw, DELIM), 1, 0)

\* ---------------------------------------------- responses of the text model
KimchiText ==
    DELIM \o <<"\n">>
    \o <<"N","A","M","E",":"," ","K","i","m","c","h","i"," ","F","r","i","e","d"," ","R","i","c","e">> \o <<"\n">>
    \o <<"T","I","M","E",":"," ","1","5","m","i","n">> \o <<"\n">>
    \o <<"R","E","C","I","P","E",":"," ","1","."," ","F","r","y"," ","r","i","c","e",".">> \o <<"\n">>
    \o <<"2","."," ","A","d","d"," ","k","i","m","c","h","i",".">> \o <<"\n">>
    \o <<"C","A","P","T","I","O","N",":"," ","Y","u","m","!">> \o <<"\n">>
    \o DELIM

OneCardText == <<"N","A","M","E",":"," ","A","b","\n">> \o DELIM
NoNameText == <<"T","I","M","E",":"," ","5","m","\n">>

Fragments ==
    { DELIM,
      <<"N","A","M","E",":"," ","A","b","\n">>,
      <<"T","I","M","E",":"," ","5","m","\n">>,
      <<"R","E","C","I","P","E",":"," ","1",".","\n","2",".","\n">>,
      <<"C","A","P","T","I","O","N",":"," ","Y","\n">>,
      <<"P","L","O","G","_","C","A","P","T","I","O","N",":"," ","P","\n">>,
      <<" ">>,
      <<"C","O","S","T",":">>,
      <<"-">> }

RECURSIVE TextsOfFragments(_)
TextsOfFragments(n) ==
    IF n = 0 THEN {<<>>}
    ELSE {f \o r : f \in Fragments, r \in TextsOfFragments(n - 1)}

\* what the model may answer where the parser is examined
RawTexts == UNION {TextsOfFragments(n) : n \in 0..MaxFragments} \cup {KimchiText}

\* what the model may answer in the whole-application run
AppResponses == {OneCardText, NoNameText}

\* ------------------------------------------------------------- image client
Bytes(content) == [kind |-> "bytes", content |-> content]

\* what one requests.post may produce: a raised exception, or a status with a
\* body (hint = its "estimated_time" when the body is a JSON object holding one)
HfResponses ==
    { [raises |-> TRUE,  status |-> 0,   body |-> "none",           hint |-> 0, content |-> <<>>],
      [raises |-> FALSE, status |-> 200, body |-> "image",          hint |-> 0, content |-> <<"i","m","g">>],
      [raises |-> FALSE, status |-> 503, body |-> "json_hint",      hint |-> 5, content |-> <<>>],
      [raises |-> FALSE, status |-> 503, body |-> "json_no_hint",   hint |-> 0, content |-> <<>>],
      [raises |-> FALSE, status |-> 503, body |-> "json_null_hint", hint |-> 0, content |-> <<>>],
      [raises |-> FALSE, status |-> 503, body |-> "not_json",       hint |-> 0, content |-> <<>>],
      [raises |-> FALSE, status |-> 500, body |-> "not_json",       hint |-> 0, content |-> <<>>] }

\* response.json().get("estimated_time", 20), then int(wait_time) and time.sleep:
\* "raise" when the body is not a JSON object or the hint is not a number
WaitTime(resp) ==
    IF resp.body = "json_hint" THEN [raises |-> FALSE, seconds |-> resp.hint]
    ELSE IF resp.body = "json_no_hint" THEN [raises |-> FALSE, seconds |-> DefaultWait]
    ELSE [raises |-> TRUE, seconds |-> 0]

\* the loop body retrying on every status other than 200
HfIterationRetryAny(resp) ==
    IF resp.raises THEN [returns |-> TRUE, value |-> None, slept |-> 0]
    ELSE IF resp.status = 200
         THEN [returns |-> TRUE, value |-> Bytes(resp.content), slept |-> 0]
    ELSE IF WaitTime(resp).raises
         THEN [returns |-> FALSE, value |-> Pending, slept |-> DefaultWait]
         ELSE [returns |-> FALSE, value |-> Pending, slept |-> WaitTime(resp).seconds]

\* one pass of the body of "for attempt in range(3)"
HfIteration(resp) ==
    IF resp.raises THEN [returns |-> TRUE, value |-> None, slept |-> 0]
    ELSE IF resp.status = 200
         THEN [returns |-> TRUE, value |-> Bytes(resp.content), slept |-> 0]
    ELSE IF resp.status = 503
         THEN IF WaitTime(resp).raises
              THEN [returns |-> TRUE, value |-> None, slept |-> 0]
              ELSE [returns |-> FALSE, value |-> Pending, slept |-> WaitTime(resp).seconds]
    ELSE [returns |-> TRUE, value |-> None, slept |-> 0]

InCall == pc \in {"done_call", "raw_call"}
Returned == pc \in {"done_ret", "raw_ret"}
AfterCall(p) == IF p = "done_call" THEN "done_ret" ELSE "raw_ret"

\* ------------------------------------------------------------ script runs
\* a change of the sidebar "API Key" field
SetApiKey(k) ==
    /\ pc = "idle"
    /\ api_key' = k
    /\ notice' = "none"
    /\ raised' = "none"
    /\ UNCHANGED <<memFile, hf_token, last_options, cards, completionCalls>>
    /\ UNCHANGED <<hfVars, harnessVars>>

\* a change of the sidebar "Hugging Face Token" field
SetHfToken(t) ==
    /\ pc = "idle"
    /\ hf_token' = t
    /\ notice' = "none"
    /\ raised' = "none"
    /\ UNCHANGED <<memFile, api_key, last_options, cards, completionCalls>>
    /\ UNCHANGED <<hfVars, harnessVars>>

\* "Submit & Teach AI" with user_pref = text
SubmitFeedback(text, ok) ==
    /\ pc = "idle"
    /\ Len(ReadLines(memFile.data)) < MaxFileLines
    /\ IF Truthy(text)
       THEN LET r == save_feedback(memFile, text, ok)
            IN  /\ memFile' = r.file
                /\ raised' = r.raised
                /\ notice' = IF r.raised = "none" THEN "saved" ELSE "none"
       ELSE /\ memFile' = memFile
            /\ raised' = "none"
            /\ notice' = "none"
    /\ UNCHANGED <<api_key, hf_token, last_options, cards, completionCalls>>
    /\ UNCHANGED <<hfVars, harnessVars>>

\* "Reset AI Memory", drawn only when active_memories is not empty
ResetMemory ==
    /\ pc = "idle"
    /\ Truthy(load_trimmed_memory(memFile, DefaultLimit))
    /\ LET r == ClearMemory(memFile)
       IN  /\ memFile' = r.file
           /\ raised' = r.raised
    /\ notice' = "memory_cleared"
    /\ UNCHANGED <<api_key, hf_token, last_options, cards, completionCalls>>
    /\ UNCHANGED <<hfVars, harnessVars>>

\* the generate handler without the "if not api_key" test
DecideForMeUnchecked(responses) ==
    /\ pc = "idle"
    /\ raised' = "none"
    /\ \/ /\ completionCalls' = 1
          /\ notice' = "logic_error"
          /\ UNCHANGED <<last_options, pc>>
       \/ \E text \in responses :
             /\ completionCalls' = 1
             /\ notice' = "none"
             /\ last_options' = [present |-> TRUE, text |-> text]
             /\ pc' = "rerun"
    /\ UNCHANGED <<memFile, api_key, hf_token, cards>>
    /\ UNCHANGED <<hfAttempt, hfLog, hfResult, img_done>>
    /\ UNCHANGED harnessVars

\* "Decide for Me (Generate 3 Options)"; the model answers from responses or fails
DecideForMe(responses) ==
    /\ pc = "idle"
    /\ raised' = "none"
    /\ IF ~Truthy(api_key)
       THEN /\ notice' = "api_key_missing"
            /\ completionCalls' = 0
            /\ UNCHANGED <<last_options, pc>>
       ELSE \/ /\ completionCalls' = 1
               /\ notice' = "logic_error"
               /\ UNCHANGED <<last_options, pc>>
            \/ \E text \in responses :
                  /\ completionCalls' = 1
                  /\ notice' = "none"
                  /\ last_options' = [present |-> TRUE, text |-> text]
                  /\ pc' = "rerun"
    /\ UNCHANGED <<memFile, api_key, hf_token, cards>>
    /\ UNCHANGED <<hfAttempt, hfLog, hfResult, img_done>>
    /\ UNCHANGED harnessVars

\* the rerun after st.rerun(): the "if 'last_options' in st.session_state" section
RenderOptions ==
    /\ pc = "rerun"
    /\ last_options.present
    /\ cards' = RenderCards(last_options.text)
    /\ pc' = "idle"
    /\ UNCHANGED <<memFile, raised, notice, api_key, hf_token, last_options, completionCalls>>
    /\ UNCHANGED <<hfAttempt, hfLog, hfResult, img_done>>
    /\ UNCHANGED harnessVars

\* "Generate Plog & Caption" of some card, up to the first generate_hf_image call
GeneratePlog ==
    /\ pc = "idle"
    /\ \E i \in 1..Len(cards) : cards[i].number = i
    /\ raised' = "none"
    /\ IF ~Truthy(hf_token)
       THEN /\ notice' = "hf_token_missing"
            /\ UNCHANGED hfVars
       ELSE /\ notice' = "none"
            /\ pc' = "done_call"
            /\ hfAttempt' = 0
            /\ hfLog' = <<>>
            /\ hfResult' = Pending
            /\ img_done' = Pending
    /\ UNCHANGED <<memFile, api_key, hf_token, last_options, cards, completionCalls>>
    /\ UNCHANGED harnessVars

\* one pass of the retry loop of generate_hf_image, answered by resp
HfRequest(resp) ==
    /\ InCall
    /\ hfAttempt < MaxAttempts
    /\ hfLog' = Append(hfLog, resp)
    /\ LET out == HfIteration(resp)
       IN  IF out.returns
           THEN /\ hfResult' = out.value
                /\ pc' = AfterCall(pc)
                /\ hfAttempt' = hfAttempt
           ELSE /\ hfAttempt' = hfAttempt + 1
                /\ UNCHANGED <<hfResult, pc>>
    /\ UNCHANGED <<memFile, raised, img_done>>
    /\ UNCHANGED <<uiVars, harnessVars>>

\* the loop of generate_hf_image ran out: the final "return None"
HfExhausted ==
    /\ InCall
    /\ hfAttempt >= MaxAttempts
    /\ hfResult' = None
    /\ pc' = AfterCall(pc)
    /\ UNCHANGED <<memFile, raised, hfAttempt, hfLog, img_done>>
    /\ UNCHANGED <<uiVars, harnessVars>>

\* img_done is bound; the handler calls generate_hf_image for the second image
ContinuePlog ==
    /\ pc = "done_ret"
    /\ img_done' = hfResult
    /\ pc' = "raw_call"
    /\ hfAttempt' = 0
    /\ hfLog' = <<>>
    /\ hfResult' = Pending
    /\ UNCHANGED <<memFile, raised>>
    /\ UNCHANGED <<uiVars, harnessVars>>

\* img_raw is bound; "if img_done and img_raw" picks the images or the busy message
FinishPlog ==
    /\ pc = "raw_ret"
    /\ notice' = IF Truthy(img_done.content) /\ Truthy(hfResult.content)
                 THEN "plog_shown" ELSE "image_busy"
    /\ pc' = "idle"
    /\ hfAttempt' = 0
    /\ hfLog' = <<>>
    /\ hfResult' = Pending
    /\ img_done' = Pending
    /\ UNCHANGED <<memFile, raised, api_key, hf_token, last_options, cards, completionCalls>>
    /\ UNCHANGED harnessVars

HfStep ==
    \/ \E resp \in HfResponses : HfRequest(resp)
    \/ HfExhausted
    \/ ContinuePlog
    \/ FinishPlog

Keys == { <<>>, <<"k">> }

Next ==
    \/ \E k \in Keys : SetApiKey(k)
    \/ \E t \in Keys : SetHfToken(t)
    \/ \E text \in FeedbackInputs, ok \in BOOLEAN : SubmitFeedback(text, ok)
    \/ ResetMemory
    \/ DecideForMe(AppResponses)
    \/ RenderOptions
    \/ GeneratePlog
    \/ \E resp \in HfResponses : HfRequest(resp)
    \/ HfExhausted
    \/ ContinuePlog
    \/ FinishPlog

Spec == Init /\ [][Next]_vars

\* a started generate_hf_image call and the handler around it run to their end
FairSpec == Spec /\ WF_vars(HfStep)

\* the parser alone: a response was just stored and the script reruns
InitParser ==
    /\ memFile = Absent
    /\ raised = "none"
    /\ notice = "none"
    /\ api_key = <<"k">>
    /\ hf_token = <<>>
    /\ last_options \in {[present |-> TRUE, text |-> raw] : raw \in RawTexts}
    /\ cards = <<>>
    /\ completionCalls = 1
    /\ pc = "rerun"
    /\ hfAttempt = 0
    /\ hfLog = <<>>
    /\ hfResult = Pending
    /\ img_done = Pending
    /\ appended = <<>>
    /\ window = <<>>
    /\ readLimit = DefaultLimit
    /\ storeOp = [name |-> "none", pre |-> "absent"]

NextParser == RenderOptions

SpecParser == InitParser /\ [][NextParser]_vars

\* ================================================================ properties

\* the last n elements of seq
LastN(seq, n) == SubSeq(seq, Len(seq) - n + 1, Len(seq))

IsPrefix(a, b) == Len(a) <= Len(b) /\ SubSeq(b, 1, Len(a)) = a

\* the lines held by memory.txt
StoreEntries(file) == IF file.exists THEN ReadLines(file.data) ELSE <<>>

\* C1: load_trimmed_memory(N) after M > N appends returns exactly the last N
\* appended entries, oldest first, and never more than N entries.
C1_ReadReturnsLastN ==
    storeOp.name = "read" =>
        /\ Len(window) <= readLimit
        /\ Len(appended) > readLimit => window = LastN(appended, readLimit)

\* C2: after clearing, from any prior state of the file, load_trimmed_memory(N)
\* returns the empty sequence; clearing an absent or empty store raises nothing
\* and leaves it empty.
C2_ClearThenReadEmpty ==
    /\ storeOp.name = "clear" =>
          /\ raised = "none"
          /\ memFile.data = <<>>
          /\ \A n \in 0..MaxLimit : load_trimmed_memory(memFile, n) = <<>>
          /\ load_trimmed_memory(memFile, DefaultLimit) = <<>>
          /\ ClearMemory(memFile).file = memFile
    /\ (storeOp.name = "read" /\ storeOp.pre = "absent") => window = <<>>

\* a store that held entries was cleared, and then cleared again while absent
C2_Witness ==
    /\ storeOp = [name |-> "clear", pre |-> "absent"]
    /\ window /= <<>>
    /\ ~memFile.exists

\* C3: every step other than the whole-store clear leaves the stored lines as
\* an unchanged prefix of the stored lines after it.
C3_AppendOnly ==
    [][ResetMemory \/ ( /\ IsPrefix(StoreEntries(memFile), StoreEntries(memFile'))
                        /\ IsPrefix(memFile.data, memFile'.data) )]_vars

\* two entries are stored, options were generated, and both image calls have run
C3_Witness ==
    /\ Len(StoreEntries(memFile)) >= 2
    /\ last_options.present
    /\ pc = "raw_ret"

\* C4: with the backing medium unavailable, submitting feedback raises no error
\* out of save_feedback and leaves the store unchanged.
C4_AppendFailsSilently ==
    [][\A text \in FeedbackInputs :
          (Truthy(text) /\ SubmitFeedback(text, FALSE))
              => (raised' = "none" /\ memFile' = memFile)]_vars

\* the k-th smallest element of a set of numbers
Nth(S, k) == CHOOSE x \in S : Cardinality({y \in S : y < x}) = k - 1

\* C5: the cards are exactly the '---' segments containing "NAME:", in order,
\* numbered 1, 2, ...; no "NAME:" in the text gives no card; two segments of
\* which only the first has "NAME:" give one card, the first segment.
C5_KeepsNameSegments ==
    (pc = "idle" /\ last_options.present) =>
        LET raw == last_options.text
            segs == Split(raw, DELIM)
            kept == {k \in 1..Len(segs) : Contains(segs[k], L_NAME)}
        IN  /\ ~Contains(raw, L_NAME) => cards = <<>>
            /\ Len(cards) = Cardinality(kept)
            /\ \A i \in 1..Len(cards) :
                  /\ cards[i].number = i
                  /\ cards[i].opt = segs[Nth(kept, i)]
            /\ (Len(segs) = 2 /\ Contains(segs[1], L_NAME) /\ ~Contains(segs[2], L_NAME))
                  => (Len(cards) = 1 /\ cards[1].opt = segs[1])

\* a dropped segment, then a kept one, then a dropped one: the card is "Option 1"
C5_Witness ==
    /\ pc = "idle"
    /\ last_options.present
    /\ LET segs == Split(last_options.text, DELIM)
       IN  /\ Len(segs) = 3
           /\ ~Contains(segs[1], L_NAME)
           /\ Contains(segs[2], L_NAME)
           /\ ~Contains(segs[3], L_NAME)
    /\ Len(cards) = 1
    /\ cards[1].number = 1

\* every character between the start of its line and index i is whitespace
AtLineStart(s, i) ==
    \A j \in 1..(i - 1) : (\A k \in j..(i - 1) : s[k] /= "\n") => s[j] \in Whitespace

Occurrences(s, p) == {i \in 1..Len(s) : MatchAt(s, i, p)}

\* each field label occurs at most once in the block, at the start of a line
WellFormed(opt) ==
    \A label \in Labels :
        /\ Cardinality(Occurrences(opt, label)) <= 1
        /\ \A i \in Occurrences(opt, label) : AtLineStart(opt, i)

\* the text after the label marker up to the end of its line, trimmed
TextAfter(opt, label) ==
    LET i == Find(opt, label, 1)
        rest == SubSeq(opt, i + Len(label), Len(opt))
        j == Find(rest, <<"\n">>, 1)
    IN  Strip(IF j = 0 THEN rest ELSE SubSeq(rest, 1, j - 1))

\* C6: in a well-formed block get_val of a present label is the trimmed text
\* after that label's marker, and get_val of an absent label is "N/A".
C6_GetValOfWellFormed ==
    pc = "idle" =>
        \A i \in 1..Len(cards) : \A label \in Labels :
            LET opt == cards[i].opt
            IN  WellFormed(opt) =>
                   /\ Contains(opt, label) => cards[i].field[label] = TextAfter(opt, label)
                   /\ ~Contains(opt, label) => cards[i].field[label] = NA

\* an indented well-formed block with NAME: and TIME: present and COST: absent
C6_Witness ==
    /\ pc = "idle"
    /\ \E i \in 1..Len(cards) :
          /\ WellFormed(cards[i].opt)
          /\ Head(cards[i].opt) = " "
          /\ cards[i].field[L_NAME] = <<"A","b">>
          /\ cards[i].field[L_TIME] = <<"5","m">>
          /\ cards[i].field[L_COST] = NA

L_PLOG_CAPTION == <<"P","L","O","G","_","C","A","P","T","I","O","N",":">>

Least(S) == CHOOSE x \in S : \A y \in S : x <= y

\* the text after the first "RECIPE:" up to the first following line that starts
\* with "CAPTION:" or "PLOG_CAPTION:" (to the end of the block without one)
RecipeUpToLabelLine(opt) ==
    LET start == Find(opt, L_RECIPE, 1) + Len(L_RECIPE)
        stops == {k \in start..Len(opt) :
                    /\ MatchAt(opt, k, L_CAPTION) \/ MatchAt(opt, k, L_PLOG_CAPTION)
                    /\ AtLineStart(opt, k)}
        stop == IF stops = {} THEN Len(opt) + 1 ELSE Least(stops)
    IN  Strip(SubSeq(opt, start, stop - 1))

\* the text after the first "RECIPE:" up to the next occurrence of the substring
\* "CAPTION:" or "RECIPE:" (to the end of the block without one)
RecipeUpToNextMarker(opt) ==
    LET start == Find(opt, L_RECIPE, 1) + Len(L_RECIPE)
        stops == {k \in start..Len(opt) :
                    MatchAt(opt, k, L_CAPTION) \/ MatchAt(opt, k, L_RECIPE)}
        stop == IF stops = {} THEN Len(opt) + 1 ELSE Least(stops)
    IN  Strip(SubSeq(opt, start, stop - 1))

KimchiRecipe ==
    <<"1","."," ","F","r","y"," ","r","i","c","e",".","\n","2","."," ","A","d","d"," ","k","i","m","c","h","i",".">>

\* the example of the kimchi block parses to its name, time, two-line recipe, caption
KimchiParsed ==
    last_options.text = KimchiText =>
        /\ Len(cards) = 1
        /\ cards[1].field[L_NAME] = <<"K","i","m","c","h","i"," ","F","r","i","e","d"," ","R","i","c","e">>
        /\ cards[1].field[L_TIME] = <<"1","5","m","i","n">>
        /\ cards[1].hasRecipe
        /\ cards[1].recipe = KimchiRecipe
        /\ cards[1].field[L_CAPTION] = <<"Y","u","m","!">>

\* C7 as stated: the recipe of every block with "RECIPE:" runs from the first
\* "RECIPE:" marker up to, not including, the next "CAPTION:" or "PLOG_CAPTION:"
\* label line; the kimchi example parses as given.
C7_RecipeUpToLabelLine ==
    pc = "idle" =>
        /\ \A i \in 1..Len(cards) :
              cards[i].hasRecipe => cards[i].recipe = RecipeUpToLabelLine(cards[i].opt)
        /\ KimchiParsed

\* C7 amended: the recipe of every block with "RECIPE:" runs from the first
\* "RECIPE:" marker up to, not including, the next occurrence of the substring
\* "CAPTION:" or "RECIPE:", trimmed; the kimchi example parses as given.
C7_RecipeUpToNextMarker ==
    pc = "idle" =>
        /\ \A i \in 1..Len(cards) :
              cards[i].hasRecipe => cards[i].recipe = RecipeUpToNextMarker(cards[i].opt)
        /\ KimchiParsed

\* the kimchi response was rendered: one card whose recipe is the two numbered lines
C7_Witness ==
    /\ pc = "idle"
    /\ last_options.text = KimchiText
    /\ Len(cards) = 1
    /\ cards[1].recipe = KimchiRecipe

\* a 503 response whose body gives no usable wait hint
Unusable503(resp) ==
    /\ ~resp.raises
    /\ resp.status = 503
    /\ resp.body \in {"json_no_hint", "json_null_hint", "not_json"}

Is503(resp) == ~resp.raises /\ resp.status = 503

\* C8: a call answered only by 503 responses without a usable wait hint returns
\* None after exactly three requests.
C8_ThreeUnusable503 ==
    (Returned /\ hfLog /= <<>> /\ \A k \in 1..Len(hfLog) : Unusable503(hfLog[k]))
        => (Len(hfLog) = 3 /\ hfResult = None)

\* at most 3 requests; a further request only after a 503; the bytes of the
\* first 200 are returned, None in every other case
C9_Safety ==
    /\ Len(hfLog) <= 3
    /\ \A k \in 1..(Len(hfLog) - 1) : Is503(hfLog[k])
    /\ InCall => \A k \in 1..Len(hfLog) : Is503(hfLog[k])
    /\ Returned =>
          LET n == Len(hfLog)
          IN  IF n > 0 /\ ~hfLog[n].raises /\ hfLog[n].status = 200
              THEN hfResult = Bytes(hfLog[n].content)
              ELSE hfResult = None

\* C9: one call of generate_hf_image always terminates with at most 3 requests,
\* returns the bytes of the first 200, retries only after a 503, and returns
\* None on any other status, on a transport failure, or after 3 attempts.
C9_CallTerminates == []C9_Safety /\ (InCall ~> Returned)

\* a call returned the image on its third request, after two 503 responses
C9_Witness ==
    /\ Returned
    /\ Len(hfLog) = 3
    /\ Is503(hfLog[1])
    /\ Is503(hfLog[2])
    /\ hfLog[3].status = 200
    /\ hfResult = Bytes(hfLog[3].content)

\* C10: a generate click with an empty API key issues no Completion API request
\* and keeps last_options; a plog click with an empty token issues no Image API
\* request; each only shows its inline message.
C10_MissingCredential ==
    [][ /\ (DecideForMe(AppResponses) /\ ~Truthy(api_key)) =>
              /\ completionCalls' = 0
              /\ last_options' = last_options
              /\ notice' = "api_key_missing"
              /\ pc' = "idle"
              /\ hfLog' = <<>>
        /\ (GeneratePlog /\ ~Truthy(hf_token)) =>
              /\ pc' = "idle"
              /\ hfLog' = <<>>
              /\ notice' = "hf_token_missing"
              /\ UNCHANGED <<completionCalls, last_options>> ]_vars

\* options exist, the last generate click found no key, the plog click no token
C10_Witness ==
    /\ notice = "hf_token_missing"
    /\ completionCalls = 0
    /\ last_options.present
    /\ ~Truthy(api_key)
    /\ ~Truthy(hf_token)

====
